---- MODULE Spec2Model ----
(***************************************************************************)
(* State-machine model of the VaccineRecordPrivacy contract                *)
(* (src/unnamed/part_002).  Every external function of the contract is one *)
(* atomic action (an EVM transaction).  For each function F the operator   *)
(* FStatus gives the outcome of a call in the current state: "ok" or the   *)
(* revert reason of the first failing require; a reverted call leaves the  *)
(* whole state untouched.  block.timestamp is the variable now, advanced   *)
(* by AdvanceTime.                                                         *)
(***************************************************************************)
EXTENDS Integers, Sequences, FiniteSets, TLC

VARIABLES healthAuthority, totalRecords, vaccineRecords, accessPermissions,
          authorizedDoctors, userRecords, acl, now

vars == <<healthAuthority, totalRecords, vaccineRecords, accessPermissions,
          authorizedDoctors, userRecords, acl, now>>

\* the contract's own storage (and the ciphertext access list), without the clock
contractState == <<healthAuthority, totalRecords, vaccineRecords,
                   accessPermissions, authorizedDoctors, userRecords, acl>>

-----------------------------------------------------------------------------
(* Bounds of the model *)

MaxRecords == 1
MaxDays == 1
MaxSkew == 1

-----------------------------------------------------------------------------
(* Program constants *)

DAY == 86400
OwnerGrantDays == 365
MaxVaccineType == 10
MaxDoseNumber == 5

-----------------------------------------------------------------------------
(* Identities and inputs *)

ZeroAddress == "0x0"
Addresses == {"a1", "a2", "a3"}
Deployer == "a1"
This == "this"
AnyAddress == Addresses \cup {ZeroAddress}

\* ids of the mappings' rows: 0 is never a record, MaxRecords + 1 is a record
\* only where the counter may pass MaxRecords
RecordIds == 0..(MaxRecords + 1)

\* block.timestamp at deployment
StartTime == 20000 * DAY
\* block timestamps the clock may take: deployment, the instants at and just
\* after each whole day up to MaxDays, and one instant past the patient's
\* one-year permission of a record made at deployment
TimePoints ==
  {StartTime}
    \cup { StartTime + d * DAY + j : d \in 1..MaxDays, j \in 0..MaxSkew }
    \cup { StartTime + OwnerGrantDays * DAY + MaxSkew }

Durations == 0..MaxDays

\* arguments the calls are tried with
Doctors == {"a2", "a3"}
Patients == {ZeroAddress, "a2", "a3"}
Accessors == {ZeroAddress, "a2"}
PersonIds == {12345}
VaccineTypes == {0, 1, MaxVaccineType + 1}
VaccineDates == {1700000000}
DoseNumbers == {0, 1, MaxDoseNumber + 1}
BatchNumbers == {98765}
NewVaccineTypes == {0, 2}
NewVaccineDates == {0}
NewDoseNumbers == {0}
NewBatchNumbers == {0}

-----------------------------------------------------------------------------
(* Ciphertext handles: the external library is a black box; a handle is   *)
(* identified by its declared width and the plaintext it was made from.    *)

NoHandle == [bits |-> 0, val |-> 0]
asEuint8(v) == [bits |-> 8, val |-> v]
asEuint32(v) == [bits |-> 32, val |-> v]

\* acl is the set of pairs <<handle, account>> the library's access list
\* holds (FHE.allowThis(h) adds <<h, This>>, FHE.allow(h, who) adds <<h, who>>)

-----------------------------------------------------------------------------
(* Storage defaults *)

NoRecord == [encryptedPersonId |-> NoHandle,
             encryptedVaccineType |-> NoHandle,
             encryptedVaccineDate |-> NoHandle,
             encryptedDoseNumber |-> NoHandle,
             encryptedBatchNumber |-> NoHandle,
             isActive |-> FALSE,
             timestamp |-> 0,
             authorizedDoctor |-> ZeroAddress]

NoPermission == [canView |-> FALSE, canUpdate |-> FALSE,
                 expiryTime |-> 0, isActive |-> FALSE]

Init ==
  /\ healthAuthority = Deployer
  /\ totalRecords = 0
  /\ vaccineRecords = [r \in RecordIds |-> NoRecord]
  /\ accessPermissions = [u \in AnyAddress |-> [r \in RecordIds |-> NoPermission]]
  /\ authorizedDoctors = [u \in AnyAddress |-> FALSE]
  /\ userRecords = [u \in AnyAddress |-> <<>>]
  /\ acl = {}
  /\ now = StartTime

-----------------------------------------------------------------------------
(* View functions *)

\* variant: a row counts only while its record is active
hasAccessPermission_ActiveRecordOnly(user, recordId) ==
  LET permission == accessPermissions[user][recordId]
  IN  /\ vaccineRecords[recordId].isActive
      /\ permission.isActive /\ permission.canView /\ now <= permission.expiryTime

\* variant: the expiry instant itself excluded
hasAccessPermission_Strict(user, recordId) ==
  LET permission == accessPermissions[user][recordId]
  IN  permission.isActive /\ permission.canView /\ now < permission.expiryTime

\* variant: the revoked flag is not consulted
hasAccessPermission_IgnoresRevoked(user, recordId) ==
  LET permission == accessPermissions[user][recordId]
  IN  permission.canView /\ now <= permission.expiryTime

hasAccessPermission(user, recordId) ==
  LET permission == accessPermissions[user][recordId]
  IN  permission.isActive /\ permission.canView /\ now <= permission.expiryTime

\* variant: ownership counts only while the owner's own row is effective
hasOwnershipOfRecord_NeedsRow(user, recordId) ==
  /\ \E i \in 1..Len(userRecords[user]) : userRecords[user][i] = recordId
  /\ hasAccessPermission(user, recordId)

hasOwnershipOfRecord(user, recordId) ==
  \E i \in 1..Len(userRecords[user]) : userRecords[user][i] = recordId

getUserRecords(user) == userRecords[user]

-----------------------------------------------------------------------------
(* Clock *)

AdvanceTime(t) ==
  /\ t \in TimePoints
  /\ t > now
  /\ now' = t
  /\ UNCHANGED contractState

-----------------------------------------------------------------------------
(* A failing require reverts the transaction *)

\* variant: the counter written before the failing require stays written
reverted_CounterKept ==
  /\ totalRecords' = totalRecords + 1
  /\ UNCHANGED <<healthAuthority, vaccineRecords, accessPermissions,
                 authorizedDoctors, userRecords, acl, now>>

reverted == UNCHANGED vars

-----------------------------------------------------------------------------
(* Doctor allow-list *)

\* variant: a doctor on the allow-list passes as well
onlyHealthAuthority_OrDoctor(sender) ==
  sender = healthAuthority \/ authorizedDoctors[sender]

onlyHealthAuthority(sender) == sender = healthAuthority

authorizeDoctorStatus(sender, doctor) ==
  IF ~onlyHealthAuthority(sender) THEN "Not authorized health authority" ELSE "ok"

authorizeDoctor(sender, doctor) ==
  LET status == authorizeDoctorStatus(sender, doctor)
  IN  IF status = "ok"
      THEN /\ authorizedDoctors' = [authorizedDoctors EXCEPT ![doctor] = TRUE]
           /\ UNCHANGED <<healthAuthority, totalRecords, vaccineRecords,
                          accessPermissions, userRecords, acl, now>>
      ELSE reverted

revokeDoctorStatus(sender, doctor) ==
  IF ~onlyHealthAuthority(sender) THEN "Not authorized health authority" ELSE "ok"

revokeDoctor(sender, doctor) ==
  LET status == revokeDoctorStatus(sender, doctor)
  IN  IF status = "ok"
      THEN /\ authorizedDoctors' = [authorizedDoctors EXCEPT ![doctor] = FALSE]
           /\ UNCHANGED <<healthAuthority, totalRecords, vaccineRecords,
                          accessPermissions, userRecords, acl, now>>
      ELSE reverted

-----------------------------------------------------------------------------
(* recordVaccination *)

onlyAuthorizedDoctor(sender) == authorizedDoctors[sender]

\* variant: the dose number is not validated
recordVaccinationStatus_NoDoseCheck(sender, patient, vaccineType, doseNumber) ==
  IF ~onlyAuthorizedDoctor(sender) THEN "Not an authorized doctor"
  ELSE IF ~(patient /= ZeroAddress) THEN "Invalid patient address"
  ELSE IF ~(vaccineType > 0 /\ vaccineType <= MaxVaccineType) THEN "Invalid vaccine type"
  ELSE "ok"

recordVaccinationStatus(sender, patient, vaccineType, doseNumber) ==
  IF ~onlyAuthorizedDoctor(sender) THEN "Not an authorized doctor"
  ELSE IF ~(patient /= ZeroAddress) THEN "Invalid patient address"
  ELSE IF ~(vaccineType > 0 /\ vaccineType <= MaxVaccineType) THEN "Invalid vaccine type"
  ELSE IF ~(doseNumber > 0 /\ doseNumber <= MaxDoseNumber) THEN "Invalid dose number"
  ELSE "ok"

\* variant: the patient's row made with a 30-day validity
patientPermission_ThirtyDays ==
  [canView |-> TRUE, canUpdate |-> FALSE,
   expiryTime |-> now + 30 * DAY, isActive |-> TRUE]

\* the permission row recordVaccination installs for the patient
patientPermission ==
  [canView |-> TRUE, canUpdate |-> FALSE,
   expiryTime |-> now + OwnerGrantDays * DAY, isActive |-> TRUE]

\* variant: the FHE.allow calls for the doctor left out
recordAcl_NoDoctor(a, hs, patient, doctor) ==
  a \cup { <<hs[i], w>> : i \in 1..Len(hs), w \in {This, patient} }

\* FHE.allowThis on the five handles, then FHE.allow for patient and doctor
recordAcl(a, hs, patient, doctor) ==
  a \cup { <<hs[i], w>> : i \in 1..Len(hs), w \in {This, patient, doctor} }

\* variant: the counter raised by two
newRecordId_SkipOne == totalRecords + 2

\* totalRecords++; recordId = totalRecords
newRecordId == totalRecords + 1

\* variant: the new id put at the front of the patient's list
pushedRecords_Prepend(lists, patient, recordId) ==
  [lists EXCEPT ![patient] = <<recordId>> \o @]

\* userRecords[patient].push(recordId)
pushedRecords(lists, patient, recordId) ==
  [lists EXCEPT ![patient] = Append(@, recordId)]

recordVaccination(sender, patient, personId, vaccineType, vaccineDate, doseNumber, batchNumber) ==
  LET status == recordVaccinationStatus(sender, patient, vaccineType, doseNumber)
      recordId == newRecordId
      encryptedPersonId == asEuint32(personId)
      encryptedVaccineType == asEuint8(vaccineType)
      encryptedVaccineDate == asEuint32(vaccineDate)
      encryptedDoseNumber == asEuint8(doseNumber)
      encryptedBatchNumber == asEuint32(batchNumber)
  IN  /\ totalRecords + 1 \in RecordIds
      /\ IF status = "ok"
         THEN /\ totalRecords' = recordId
              /\ vaccineRecords' = [vaccineRecords EXCEPT ![recordId] =
                   [encryptedPersonId |-> encryptedPersonId,
                    encryptedVaccineType |-> encryptedVaccineType,
                    encryptedVaccineDate |-> encryptedVaccineDate,
                    encryptedDoseNumber |-> encryptedDoseNumber,
                    encryptedBatchNumber |-> encryptedBatchNumber,
                    isActive |-> TRUE,
                    timestamp |-> now,
                    authorizedDoctor |-> sender]]
              /\ acl' = recordAcl(acl, <<encryptedPersonId, encryptedVaccineType,
                                         encryptedVaccineDate, encryptedDoseNumber,
                                         encryptedBatchNumber>>, patient, sender)
              /\ userRecords' = pushedRecords(userRecords, patient, recordId)
              /\ accessPermissions' =
                   [accessPermissions EXCEPT ![patient][recordId] = patientPermission]
              /\ UNCHANGED <<healthAuthority, authorizedDoctors, now>>
         ELSE reverted

-----------------------------------------------------------------------------
(* grantAccess / revokeAccess *)

\* variant: an effective viewer passes the ownership check as well
grantAccessStatus_ViewersMayGrant(sender, accessor, recordId) ==
  IF ~vaccineRecords[recordId].isActive THEN "Record not active"
  ELSE IF ~(\/ hasOwnershipOfRecord(sender, recordId)
            \/ hasAccessPermission(sender, recordId)) THEN "Not record owner"
  ELSE IF ~(accessor /= ZeroAddress) THEN "Invalid accessor address"
  ELSE "ok"

\* variant: the ownership check evaluated before the active check
grantAccessStatus_OwnerFirst(sender, accessor, recordId) ==
  IF ~hasOwnershipOfRecord(sender, recordId) THEN "Not record owner"
  ELSE IF ~vaccineRecords[recordId].isActive THEN "Record not active"
  ELSE IF ~(accessor /= ZeroAddress) THEN "Invalid accessor address"
  ELSE "ok"

grantAccessStatus(sender, accessor, recordId) ==
  IF ~vaccineRecords[recordId].isActive THEN "Record not active"
  ELSE IF ~hasOwnershipOfRecord(sender, recordId) THEN "Not record owner"
  ELSE IF ~(accessor /= ZeroAddress) THEN "Invalid accessor address"
  ELSE "ok"

\* variant: the new grant merged into the old row instead of replacing it
grantedPermission_Merge(old, canView, canUpdate, durationInDays) ==
  [canView |-> old.canView \/ canView, canUpdate |-> old.canUpdate \/ canUpdate,
   expiryTime |-> IF old.expiryTime > now + (durationInDays * DAY)
                  THEN old.expiryTime ELSE now + (durationInDays * DAY),
   isActive |-> TRUE]

\* variant: the duration taken in hours
grantedPermission_Hours(old, canView, canUpdate, durationInDays) ==
  [canView |-> canView, canUpdate |-> canUpdate,
   expiryTime |-> now + (durationInDays * 3600), isActive |-> TRUE]

\* the permission row grantAccess writes
grantedPermission(old, canView, canUpdate, durationInDays) ==
  [canView |-> canView, canUpdate |-> canUpdate,
   expiryTime |-> now + (durationInDays * DAY), isActive |-> TRUE]

\* variant: FHE.allow called whatever canView is
grantAcl_Always(a, record, accessor, canView) ==
  a \cup { <<h, accessor>> : h \in {record.encryptedPersonId,
                                     record.encryptedVaccineType,
                                     record.encryptedVaccineDate,
                                     record.encryptedDoseNumber,
                                     record.encryptedBatchNumber} }

\* variant: a grant without view permission withdraws the accessor from the
\* record's five handles
grantAcl_Withdraw(a, record, accessor, canView) ==
  LET pairs == { <<h, accessor>> : h \in {record.encryptedPersonId,
                                           record.encryptedVaccineType,
                                           record.encryptedVaccineDate,
                                           record.encryptedDoseNumber,
                                           record.encryptedBatchNumber} }
  IN  IF canView THEN a \cup pairs ELSE a \ pairs

\* FHE.allow on the record's five handles when view permission is granted
grantAcl(a, record, accessor, canView) ==
  IF canView
  THEN a \cup { <<h, accessor>> : h \in {record.encryptedPersonId,
                                         record.encryptedVaccineType,
                                         record.encryptedVaccineDate,
                                         record.encryptedDoseNumber,
                                         record.encryptedBatchNumber} }
  ELSE a

grantAccess(sender, accessor, recordId, canView, canUpdate, durationInDays) ==
  LET status == grantAccessStatus(sender, accessor, recordId)
  IN  IF status = "ok"
      THEN /\ accessPermissions' =
                [accessPermissions EXCEPT ![accessor][recordId] =
                   grantedPermission(@, canView, canUpdate, durationInDays)]
           /\ acl' = grantAcl(acl, vaccineRecords[recordId], accessor, canView)
           /\ UNCHANGED <<healthAuthority, totalRecords, vaccineRecords,
                          authorizedDoctors, userRecords, now>>
      ELSE reverted

revokeAccessStatus(sender, accessor, recordId) ==
  IF ~hasOwnershipOfRecord(sender, recordId) THEN "Not record owner" ELSE "ok"

\* variant: revocation by moving the expiry to the current instant
revokedPermission_ExpireNow(old) == [old EXCEPT !.expiryTime = now]

\* variant: revocation by deleting the row
revokedPermission_Delete(old) == NoPermission

\* the permission row revokeAccess leaves
revokedPermission(old) == [old EXCEPT !.isActive = FALSE]

revokeAccess(sender, accessor, recordId) ==
  LET status == revokeAccessStatus(sender, accessor, recordId)
  IN  IF status = "ok"
      THEN /\ accessPermissions' =
                [accessPermissions EXCEPT ![accessor][recordId] =
                   revokedPermission(@)]
           /\ UNCHANGED <<healthAuthority, totalRecords, vaccineRecords,
                          authorizedDoctors, userRecords, acl, now>>
      ELSE reverted

-----------------------------------------------------------------------------
(* updateVaccineRecord *)

\* variant: any unrevoked, unexpired row passes the modifier
onlyRecordOwnerOrAuthorized_AnyRow(sender, recordId) ==
  \/ /\ accessPermissions[sender][recordId].isActive
     /\ now <= accessPermissions[sender][recordId].expiryTime
  \/ vaccineRecords[recordId].authorizedDoctor = sender

\* variant: the modifier without its creator alternative
onlyRecordOwnerOrAuthorized_GrantOnly(sender, recordId) ==
  hasAccessPermission(sender, recordId)

onlyRecordOwnerOrAuthorized(sender, recordId) ==
  \/ hasAccessPermission(sender, recordId)
  \/ vaccineRecords[recordId].authorizedDoctor = sender

\* variant: the canUpdate flag is not consulted
hasUpdatePermission_Any(sender, recordId) == TRUE

hasUpdatePermission(sender, recordId) ==
  \/ accessPermissions[sender][recordId].canUpdate
  \/ vaccineRecords[recordId].authorizedDoctor = sender

\* variant: the record's isActive flag is not consulted
updateVaccineRecordStatus_NoActiveCheck(sender, recordId) ==
  IF ~onlyRecordOwnerOrAuthorized(sender, recordId) THEN "No access permission"
  ELSE IF ~hasUpdatePermission(sender, recordId) THEN "No update permission"
  ELSE "ok"

\* variant: the active check evaluated before the modifier
updateVaccineRecordStatus_ActiveFirst(sender, recordId) ==
  IF ~vaccineRecords[recordId].isActive THEN "Record not active"
  ELSE IF ~onlyRecordOwnerOrAuthorized(sender, recordId) THEN "No access permission"
  ELSE IF ~hasUpdatePermission(sender, recordId) THEN "No update permission"
  ELSE "ok"

updateVaccineRecordStatus(sender, recordId) ==
  IF ~onlyRecordOwnerOrAuthorized(sender, recordId) THEN "No access permission"
  ELSE IF ~vaccineRecords[recordId].isActive THEN "Record not active"
  ELSE IF ~hasUpdatePermission(sender, recordId) THEN "No update permission"
  ELSE "ok"

\* variant: a new type or dose outside the ranges of recordVaccination is
\* left out like a zero
updatedRecord_Ranged(record, newVaccineType, newVaccineDate, newDoseNumber, newBatchNumber) ==
  [record EXCEPT
     !.encryptedVaccineType = IF newVaccineType > 0 /\ newVaccineType <= MaxVaccineType
                              THEN asEuint8(newVaccineType) ELSE @,
     !.encryptedVaccineDate = IF newVaccineDate > 0 THEN asEuint32(newVaccineDate) ELSE @,
     !.encryptedDoseNumber = IF newDoseNumber > 0 /\ newDoseNumber <= MaxDoseNumber
                             THEN asEuint8(newDoseNumber) ELSE @,
     !.encryptedBatchNumber = IF newBatchNumber > 0 THEN asEuint32(newBatchNumber) ELSE @]

\* the record after the selective field replacement (zero = leave unchanged)
updatedRecord(record, newVaccineType, newVaccineDate, newDoseNumber, newBatchNumber) ==
  [record EXCEPT
     !.encryptedVaccineType = IF newVaccineType > 0 THEN asEuint8(newVaccineType) ELSE @,
     !.encryptedVaccineDate = IF newVaccineDate > 0 THEN asEuint32(newVaccineDate) ELSE @,
     !.encryptedDoseNumber = IF newDoseNumber > 0 THEN asEuint8(newDoseNumber) ELSE @,
     !.encryptedBatchNumber = IF newBatchNumber > 0 THEN asEuint32(newBatchNumber) ELSE @]

\* variant: each replaced handle is opened to every account as well
updateAcl_Everyone(a, newVaccineType, newVaccineDate, newDoseNumber, newBatchNumber) ==
  a \cup (IF newVaccineType > 0 THEN {asEuint8(newVaccineType)} \X AnyAddress ELSE {})
    \cup (IF newVaccineDate > 0 THEN {asEuint32(newVaccineDate)} \X AnyAddress ELSE {})
    \cup (IF newDoseNumber > 0 THEN {asEuint8(newDoseNumber)} \X AnyAddress ELSE {})
    \cup (IF newBatchNumber > 0 THEN {asEuint32(newBatchNumber)} \X AnyAddress ELSE {})

\* FHE.allowThis on each replaced handle
updateAcl(a, newVaccineType, newVaccineDate, newDoseNumber, newBatchNumber) ==
  a \cup (IF newVaccineType > 0 THEN {<<asEuint8(newVaccineType), This>>} ELSE {})
    \cup (IF newVaccineDate > 0 THEN {<<asEuint32(newVaccineDate), This>>} ELSE {})
    \cup (IF newDoseNumber > 0 THEN {<<asEuint8(newDoseNumber), This>>} ELSE {})
    \cup (IF newBatchNumber > 0 THEN {<<asEuint32(newBatchNumber), This>>} ELSE {})

updateVaccineRecord(sender, recordId, newVaccineType, newVaccineDate, newDoseNumber, newBatchNumber) ==
  LET status == updateVaccineRecordStatus(sender, recordId)
  IN  IF status = "ok"
      THEN /\ vaccineRecords' = [vaccineRecords EXCEPT ![recordId] =
                updatedRecord(@, newVaccineType, newVaccineDate,
                              newDoseNumber, newBatchNumber)]
           /\ acl' = updateAcl(acl, newVaccineType, newVaccineDate,
                               newDoseNumber, newBatchNumber)
           /\ UNCHANGED <<healthAuthority, totalRecords, accessPermissions,
                          authorizedDoctors, userRecords, now>>
      ELSE reverted

-----------------------------------------------------------------------------
(* verifyVaccineRecord / deactivateRecord / getStatistics *)

verifyVaccineRecordStatus(sender, recordId) ==
  IF ~hasAccessPermission(sender, recordId) THEN "No access permission" ELSE "ok"

\* the comparison result is a fresh encrypted boolean returned to the caller;
\* the call stores nothing
verifyVaccineRecord(sender, recordId, expectedPersonId) ==
  LET status == verifyVaccineRecordStatus(sender, recordId)
  IN  /\ status \in {"ok", "No access permission"}
      /\ UNCHANGED vars

\* variant: the record's owner passes as well
deactivateRecordStatus_OwnerToo(sender, recordId) ==
  IF ~(\/ vaccineRecords[recordId].authorizedDoctor = sender
       \/ sender = healthAuthority
       \/ hasOwnershipOfRecord(sender, recordId))
  THEN "Not authorized" ELSE "ok"

deactivateRecordStatus(sender, recordId) ==
  IF ~(\/ vaccineRecords[recordId].authorizedDoctor = sender
       \/ sender = healthAuthority)
  THEN "Not authorized" ELSE "ok"

\* variant: the call flips the flag
deactivatedRecord_Toggle(old) == [old EXCEPT !.isActive = ~@]

\* the record deactivateRecord leaves
deactivatedRecord(old) == [old EXCEPT !.isActive = FALSE]

deactivateRecord(sender, recordId) ==
  LET status == deactivateRecordStatus(sender, recordId)
  IN  IF status = "ok"
      THEN /\ vaccineRecords' = [vaccineRecords EXCEPT ![recordId] = deactivatedRecord(@)]
           /\ UNCHANGED <<healthAuthority, totalRecords, accessPermissions,
                          authorizedDoctors, userRecords, acl, now>>
      ELSE reverted

\* variant: the second value counts the doctors on the allow-list
getStatistics_DoctorCount ==
  <<Cardinality({i \in 1..totalRecords : vaccineRecords[i].isActive}),
    Cardinality({u \in AnyAddress : authorizedDoctors[u]})>>

getStatistics ==
  <<Cardinality({i \in 1..totalRecords : vaccineRecords[i].isActive}), totalRecords>>

-----------------------------------------------------------------------------
\* the calls and clock steps tried with arguments from the given sets; the
\* record counter is capped at maxRecords
NextOver(maxRecords, times, doctors, patients, accessors, durations, newTypes) ==
  \/ \E t \in times : AdvanceTime(t)
  \/ \E s \in Addresses, d \in doctors : authorizeDoctor(s, d)
  \/ \E s \in Addresses, d \in doctors : revokeDoctor(s, d)
  \/ \E s \in Addresses, p \in patients, id \in PersonIds, vt \in VaccineTypes,
        vd \in VaccineDates, dn \in DoseNumbers, bn \in BatchNumbers :
       /\ totalRecords < maxRecords
       /\ recordVaccination(s, p, id, vt, vd, dn, bn)
  \/ \E s \in Addresses, a \in accessors, r \in RecordIds, cv \in BOOLEAN,
        cu \in BOOLEAN, d \in durations :
       grantAccess(s, a, r, cv, cu, d)
  \/ \E s \in Addresses, a \in accessors, r \in RecordIds : revokeAccess(s, a, r)
  \/ \E s \in Addresses, r \in RecordIds, vt \in newTypes,
        vd \in NewVaccineDates, dn \in NewDoseNumbers, bn \in NewBatchNumbers :
       updateVaccineRecord(s, r, vt, vd, dn, bn)
  \/ \E s \in Addresses, r \in RecordIds, id \in PersonIds :
       verifyVaccineRecord(s, r, id)
  \/ \E s \in Addresses, r \in RecordIds : deactivateRecord(s, r)

\* one record, identities in varying roles, the clock around the day
\* boundaries and past the patient's year
Next ==
  NextOver(MaxRecords, TimePoints, Doctors, Patients, Accessors, Durations,
           NewVaccineTypes)

Spec == Init /\ [][Next]_vars

\* one record more, fixed roles (doctor a2, patient a3, grantee a1), grants
\* of MaxDays days, the clock at deployment and once past such a grant
NextTwo ==
  NextOver(MaxRecords + 1, {StartTime + DAY + MaxSkew}, {"a2"},
           {"a3"}, {Deployer}, {MaxDays}, NewVaccineTypes)

SpecTwo == Init /\ [][NextTwo]_vars

\* new field values for the third specification: unchanged, a type inside
\* the creation range, the largest uint8 (outside both creation ranges)
UpdateTypes == {0, 2, 255}
UpdateDoses == {0, 255}
UpdateDates == {0, 1700000001}
UpdateBatches == {0, 98766}

\* one record, fixed roles (doctor a2, patient a3, grantee a1), the clock
\* standing still, updates of all four fields
NextUpdates ==
  \/ \E s \in Addresses : authorizeDoctor(s, "a2")
  \/ \E s \in Addresses : revokeDoctor(s, "a2")
  \/ \E s \in Addresses, id \in PersonIds, vt \in VaccineTypes,
        vd \in VaccineDates, dn \in DoseNumbers, bn \in BatchNumbers :
       /\ totalRecords < MaxRecords
       /\ recordVaccination(s, "a3", id, vt, vd, dn, bn)
  \/ \E s \in Addresses, r \in RecordIds, cv \in BOOLEAN, cu \in BOOLEAN :
       grantAccess(s, Deployer, r, cv, cu, MaxDays)
  \/ \E s \in Addresses, r \in RecordIds : revokeAccess(s, Deployer, r)
  \/ \E s \in Addresses, r \in 1..MaxRecords, vt \in UpdateTypes,
        vd \in UpdateDates, dn \in UpdateDoses, bn \in UpdateBatches :
       updateVaccineRecord(s, r, vt, vd, dn, bn)
  \/ \E s \in Addresses, r \in RecordIds, id \in PersonIds :
       verifyVaccineRecord(s, r, id)
  \/ \E s \in Addresses, r \in RecordIds : deactivateRecord(s, r)

SpecUpdates == Init /\ [][NextUpdates]_vars

-----------------------------------------------------------------------------
(* Vocabulary of the properties *)

\* s is the stored owner of record r: r is in s's record list
IsOwner(s, r) == \E i \in DOMAIN userRecords[s] : userRecords[s][i] = r
IsCreator(s, r) == vaccineRecords[r].authorizedDoctor = s
Created == 1..totalRecords
Row(u, r) == accessPermissions[u][r]
BoolSet == {TRUE, FALSE}

-----------------------------------------------------------------------------
(* C1 as stated: in every reachable state, grantAccess and revokeAccess on a *)
(* created record r by an identity that is not r's stored owner both fail    *)
(* with "Not record owner".                                                  *)
C1_NonOwnerAlwaysNotRecordOwner ==
  \A s \in Addresses, a \in AnyAddress, r \in Created :
    ~IsOwner(s, r) =>
      /\ grantAccessStatus(s, a, r) = "Not record owner"
      /\ revokeAccessStatus(s, a, r) = "Not record owner"

(* C1 amended: in every reachable state, a call by an identity that is not  *)
(* r's stored owner never succeeds: revokeAccess fails with "Not record     *)
(* owner"; grantAccess fails with "Not record owner" when r is active and   *)
(* with "Record not active" when r is not active (deactivated or never      *)
(* created); this holds for the creator, the administrator and holders of   *)
(* grants alike.                                                            *)
C1_NonOwnerCannotGrantOrRevoke ==
  \A s \in Addresses, a \in AnyAddress, r \in RecordIds :
    ~IsOwner(s, r) =>
      /\ revokeAccessStatus(s, a, r) = "Not record owner"
      /\ grantAccessStatus(s, a, r) =
           IF vaccineRecords[r].isActive THEN "Not record owner"
                                         ELSE "Record not active"

\* reached: on an active record its creator, who is not the owner and holds
\* an effective view and update grant, and the administrator are refused
C1_Witness ==
  \E s \in Addresses, r \in Created :
    /\ vaccineRecords[r].isActive
    /\ ~IsOwner(s, r) /\ IsCreator(s, r)
    /\ hasAccessPermission(s, r) /\ Row(s, r).canUpdate
    /\ ~IsOwner(healthAuthority, r)
    /\ grantAccessStatus(s, "a2", r) = "Not record owner"
    /\ revokeAccessStatus(s, "a2", r) = "Not record owner"
    /\ grantAccessStatus(healthAuthority, "a2", r) = "Not record owner"

-----------------------------------------------------------------------------
(* C2: updateVaccineRecord succeeds only when the record is active and the  *)
(* caller is the record's creator or holds a grant on it that is not        *)
(* revoked, not expired and has canUpdate; a view-only grantee and an       *)
(* identity with no grant are rejected, and a rejected call leaves the      *)
(* record as it was.                                                        *)
C2_UpdateOnlyWhenAuthorized ==
  \A s \in Addresses, r \in RecordIds :
    /\ updateVaccineRecordStatus(s, r) = "ok" =>
         /\ vaccineRecords[r].isActive
         /\ \/ IsCreator(s, r)
            \/ /\ Row(s, r).isActive
               /\ now <= Row(s, r).expiryTime
               /\ Row(s, r).canUpdate
    /\ (~IsCreator(s, r) /\ ~Row(s, r).canUpdate) =>
         updateVaccineRecordStatus(s, r) /= "ok"
    /\ (~IsCreator(s, r) /\ Row(s, r) = NoPermission) =>
         updateVaccineRecordStatus(s, r) /= "ok"

\* reached: on an active record a view-only grantee is refused with "No
\* update permission" and an identity with no grant with "No access permission"
C2_Witness ==
  \E s, u \in Addresses, r \in Created :
    /\ vaccineRecords[r].isActive
    /\ ~IsCreator(s, r) /\ ~IsOwner(s, r)
    /\ hasAccessPermission(s, r) /\ ~Row(s, r).canUpdate
    /\ updateVaccineRecordStatus(s, r) = "No update permission"
    /\ ~IsCreator(u, r) /\ Row(u, r) = NoPermission
    /\ updateVaccineRecordStatus(u, r) = "No access permission"

-----------------------------------------------------------------------------
(* C3: hasAccessPermission(identity, recordId) is true exactly when the     *)
(* stored row is not revoked (isActive), has canView and now <= expiryTime, *)
(* computed from the stored fields of the current state; the check that     *)
(* guards verifyVaccineRecord is this same computation.                     *)
C3_EffectiveViewerIff ==
  \A u \in AnyAddress, r \in RecordIds :
    LET revoked == ~accessPermissions[u][r].isActive
        expired == now > accessPermissions[u][r].expiryTime
        effective == ~revoked /\ accessPermissions[u][r].canView /\ ~expired
    IN  /\ hasAccessPermission(u, r) <=> effective
        /\ (verifyVaccineRecordStatus(u, r) = "ok") <=> effective

\* reached: a revoked row that still has canView and has not expired (not
\* effective), beside a row that is effective
C3_Witness ==
  \E u, v \in Addresses, r \in Created :
    /\ ~Row(u, r).isActive /\ Row(u, r).canView /\ now <= Row(u, r).expiryTime
    /\ ~hasAccessPermission(u, r)
    /\ verifyVaccineRecordStatus(u, r) = "No access permission"
    /\ Row(v, r).isActive /\ Row(v, r).canView /\ now <= Row(v, r).expiryTime
    /\ hasAccessPermission(v, r)
-----------------------------------------------------------------------------
(* C4: revocation is immediate and lasting.  A successful revokeAccess for  *)
(* (r, g) leaves g's row revoked in the very state it produces; a revoked   *)
(* row of a created record becomes active again only by a successful        *)
(* grantAccess of r's owner for (r, g); and while the row is revoked g is   *)
(* no effective viewer (hasAccessPermission and verifyVaccineRecord refuse) *)
(* and, unless g is r's creator, every updateVaccineRecord by g is refused. *)
C4_RevokedIsIneffective ==
  \A g \in AnyAddress, r \in Created :
    ~Row(g, r).isActive =>
      /\ ~hasAccessPermission(g, r)
      /\ verifyVaccineRecordStatus(g, r) /= "ok"
      /\ ~IsCreator(g, r) => updateVaccineRecordStatus(g, r) /= "ok"

C4_RevokeStep ==
  \A s \in Addresses, g \in AnyAddress, r \in RecordIds :
    (revokeAccessStatus(s, g, r) = "ok" /\ revokeAccess(s, g, r)) =>
      /\ ~accessPermissions'[g][r].isActive
      /\ ~hasAccessPermission(g, r)'
      /\ ~IsCreator(g, r) => (updateVaccineRecordStatus(g, r) /= "ok")'

C4_OnlyOwnerGrantRevives ==
  \A g \in AnyAddress, r \in Created :
    (~Row(g, r).isActive /\ accessPermissions'[g][r].isActive) =>
      \E s \in Addresses, cv \in BoolSet, cu \in BoolSet, d \in Durations :
        /\ IsOwner(s, r)
        /\ grantAccessStatus(s, g, r) = "ok"
        /\ grantAccess(s, g, r, cv, cu, d)

C4_RevocationLasts ==
  /\ []C4_RevokedIsIneffective
  /\ [][vars' /= vars => (C4_RevokeStep /\ C4_OnlyOwnerGrantRevives)]_vars

\* reached: a grantee other than the creator whose row on an active record
\* is revoked while its canView, canUpdate and expiry would still make it
\* effective, and whose update is refused
C4_Witness ==
  \E g \in Addresses, r \in Created :
    /\ vaccineRecords[r].isActive
    /\ ~IsCreator(g, r) /\ ~IsOwner(g, r)
    /\ ~Row(g, r).isActive
    /\ Row(g, r).canView /\ Row(g, r).canUpdate /\ now <= Row(g, r).expiryTime
    /\ ~hasAccessPermission(g, r)
    /\ updateVaccineRecordStatus(g, r) = "No access permission"

-----------------------------------------------------------------------------
(* C5: a grant issued at time t with durationInDays = D >= 1 stores         *)
(* expiryTime = t + D*86400; a row that is not revoked and has canView is   *)
(* effective at every now <= expiryTime, the boundary instant included, and *)
(* at no later now; the clock alone moves it from effective to not          *)
(* effective: a step that advances time changes no row.                     *)
C5_EffectiveUntilExpiry ==
  \A u \in AnyAddress, r \in RecordIds :
    (Row(u, r).isActive /\ Row(u, r).canView) =>
      /\ now <= Row(u, r).expiryTime => hasAccessPermission(u, r)
      /\ now > Row(u, r).expiryTime => ~hasAccessPermission(u, r)

C5_GrantStep ==
  \A s \in Addresses, a \in AnyAddress, r \in RecordIds,
     cv \in BoolSet, cu \in BoolSet, d \in Durations :
    (d >= 1 /\ grantAccessStatus(s, a, r) = "ok" /\ grantAccess(s, a, r, cv, cu, d)) =>
      /\ accessPermissions'[a][r].expiryTime = now + d * 86400
      /\ cv => hasAccessPermission(a, r)'

C5_ClockStep ==
  now' /= now => (now' > now /\ accessPermissions' = accessPermissions)

C5_ExpiryCorrect ==
  /\ []C5_EffectiveUntilExpiry
  /\ [][vars' /= vars => (C5_ClockStep /\ C5_GrantStep)]_vars

\* reached: a view grant of at least one day (its expiry lies two days after
\* deployment) that was never revoked and has lapsed by the clock alone
C5_Witness ==
  \E u \in Addresses, r \in Created :
    /\ ~IsOwner(u, r)
    /\ Row(u, r).isActive /\ Row(u, r).canView
    /\ Row(u, r).expiryTime = StartTime + 2 * 86400
    /\ now > Row(u, r).expiryTime
    /\ ~hasAccessPermission(u, r)
-----------------------------------------------------------------------------
(* C6: a successful grantAccess for (recordId, accessor) overwrites the     *)
(* whole stored row with the call's canView and canUpdate,                  *)
(* expiryTime = now + durationInDays*86400 and isActive = TRUE, whatever    *)
(* the row was before, and changes no other row.                            *)
C6_GrantStep ==
  \A s \in Addresses, a \in AnyAddress, r \in RecordIds,
     cv \in BoolSet, cu \in BoolSet, d \in Durations :
    (grantAccessStatus(s, a, r) = "ok" /\ grantAccess(s, a, r, cv, cu, d)) =>
      /\ accessPermissions'[a][r] =
           [canView |-> cv, canUpdate |-> cu,
            expiryTime |-> now + d * 86400, isActive |-> TRUE]
      /\ \A u \in AnyAddress, q \in RecordIds :
           (u /= a \/ q /= r) => accessPermissions'[u][q] = accessPermissions[u][q]

-----------------------------------------------------------------------------
(* C7: revokeAccess by the owner succeeds whatever the row is (absent,      *)
(* revoked, active); it sets isActive of that one row to FALSE and changes  *)
(* neither its canView, canUpdate, expiryTime nor any other row; the        *)
(* accessor is no effective viewer afterwards; on a row that is absent or   *)
(* already revoked it changes nothing at all, so a second revoke leaves the *)
(* state of the first.                                                      *)
C7_OwnerRevokeAlwaysOk ==
  \A s \in Addresses, a \in AnyAddress, r \in RecordIds :
    IsOwner(s, r) => revokeAccessStatus(s, a, r) = "ok"

C7_RevokeStep ==
  \A s \in Addresses, a \in AnyAddress, r \in RecordIds :
    (revokeAccessStatus(s, a, r) = "ok" /\ revokeAccess(s, a, r)) =>
      /\ accessPermissions' =
           [accessPermissions EXCEPT ![a][r] =
              [canView |-> accessPermissions[a][r].canView,
               canUpdate |-> accessPermissions[a][r].canUpdate,
               expiryTime |-> accessPermissions[a][r].expiryTime,
               isActive |-> FALSE]]
      /\ ~hasAccessPermission(a, r)'

\* a revoke of an absent or already revoked row is no change of state
C7_SecondRevokeIsNoStep ==
  \A s \in Addresses, a \in AnyAddress, r \in RecordIds :
    (IsOwner(s, r) /\ ~Row(a, r).isActive) =>
      (revokeAccess(s, a, r) => vars' = vars)

C7_RevokeIdempotent ==
  /\ []C7_OwnerRevokeAlwaysOk
  /\ [][vars' /= vars => (C7_SecondRevokeIsNoStep /\ C7_RevokeStep)]_vars

\* reached: a revoked row of a created record that kept its canView,
\* canUpdate and expiryTime
C7_Witness ==
  \E s, a \in Addresses, r \in Created :
    /\ IsOwner(s, r) /\ a /= s
    /\ ~Row(a, r).isActive
    /\ Row(a, r).canView /\ Row(a, r).canUpdate
    /\ Row(a, r).expiryTime = StartTime + 86400
    /\ revokeAccessStatus(s, a, r) = "ok"
    /\ revokeAccessStatus(s, ZeroAddress, r) = "ok"
    /\ ~hasAccessPermission(a, r)
-----------------------------------------------------------------------------
(* C8: a successful recordVaccination for patient P takes the next id and   *)
(* installs for (P, newId) exactly the row canView = TRUE, canUpdate =      *)
(* FALSE, isActive = TRUE, expiryTime = now + 365 days; P is an effective   *)
(* viewer of newId in the state the call produces and is its stored owner.  *)
C8_RecordStep ==
  \A s \in Addresses, p \in AnyAddress, id \in PersonIds, vt \in VaccineTypes,
     vd \in VaccineDates, dn \in DoseNumbers, bn \in BatchNumbers :
    (/\ recordVaccinationStatus(s, p, vt, dn) = "ok"
     /\ recordVaccination(s, p, id, vt, vd, dn, bn)) =>
      \E n \in RecordIds :
          /\ n = totalRecords + 1
          /\ totalRecords' = n
          /\ accessPermissions'[p][n] =
                [canView |-> TRUE, canUpdate |-> FALSE,
                 expiryTime |-> now + 365 * 86400, isActive |-> TRUE]
          /\ hasAccessPermission(p, n)'
          /\ IsOwner(p, n)'
          /\ \A u \in Addresses : IsOwner(u, n)' => u = p

C8_OwnerGrantInstalled == [][vars' /= vars => C8_RecordStep]_vars

\* reached: the state right after a creation (clock still at the record's
\* timestamp): the owner holds exactly the implicit row and is an effective
\* viewer
C8_Witness ==
  \E p \in Addresses, r \in Created :
    /\ IsOwner(p, r)
    /\ vaccineRecords[r].timestamp = now
    /\ Row(p, r) = [canView |-> TRUE, canUpdate |-> FALSE,
                    expiryTime |-> now + 365 * 86400, isActive |-> TRUE]
    /\ hasAccessPermission(p, r)

-----------------------------------------------------------------------------
(* C9 as stated: right after recordVaccination the creator and the owner    *)
(* each hold a row on the new record with canView = TRUE and canUpdate =    *)
(* TRUE, and each is an effective viewer.                                   *)
C9_FullAccessStep ==
  \A s \in Addresses, p \in AnyAddress, id \in PersonIds, vt \in VaccineTypes,
     vd \in VaccineDates, dn \in DoseNumbers, bn \in BatchNumbers :
    (/\ recordVaccinationStatus(s, p, vt, dn) = "ok"
     /\ recordVaccination(s, p, id, vt, vd, dn, bn)) =>
      \E n \in RecordIds :
        /\ n = totalRecords + 1
        /\ \A u \in {s, p} :
             /\ accessPermissions'[u][n].canView
             /\ accessPermissions'[u][n].canUpdate
             /\ hasAccessPermission(u, n)'

C9_CreatorAndOwnerFullAccess == [][vars' /= vars => C9_FullAccessStep]_vars

(* C9 amended: recordVaccination installs one row only, the owner's, with   *)
(* canView = TRUE and canUpdate = FALSE, so the owner is an effective       *)
(* viewer but not an updater; a creator other than the owner gets no row    *)
(* (it is no effective viewer) and holds its update right through the       *)
(* record's authorizedDoctor field; the creator and the owner are both put  *)
(* on the access list of all five ciphertext handles.                       *)
C9_AmendedStep ==
  \A s \in Addresses, p \in AnyAddress, id \in PersonIds, vt \in VaccineTypes,
     vd \in VaccineDates, dn \in DoseNumbers, bn \in BatchNumbers :
    (/\ recordVaccinationStatus(s, p, vt, dn) = "ok"
     /\ recordVaccination(s, p, id, vt, vd, dn, bn)) =>
      \E n \in RecordIds :
          /\ n = totalRecords + 1
          /\ accessPermissions'[p][n].canView
          /\ ~accessPermissions'[p][n].canUpdate
          /\ hasAccessPermission(p, n)'
          /\ \A u \in AnyAddress \ {p} : accessPermissions'[u][n] = NoPermission
          /\ s /= p => ~hasAccessPermission(s, n)'
          /\ s /= p => (updateVaccineRecordStatus(p, n) = "No update permission")'
          /\ (updateVaccineRecordStatus(s, n) = "ok")'
          /\ \A h \in {asEuint32(id), asEuint8(vt), asEuint32(vd),
                       asEuint8(dn), asEuint32(bn)} :
               {<<h, s>>, <<h, p>>, <<h, This>>} \subseteq acl'

C9_OnlyOwnerRowInstalled == [][vars' /= vars => C9_AmendedStep]_vars

\* reached: right after a creation by a doctor for another identity, the
\* creator has no row and is no effective viewer, the owner has a view-only
\* row, and both are on the access list of the record's handles
C9_Witness ==
  \E s, p \in Addresses, r \in Created :
    /\ s /= p /\ IsCreator(s, r) /\ IsOwner(p, r)
    /\ vaccineRecords[r].timestamp = now
    /\ Row(s, r) = NoPermission /\ ~hasAccessPermission(s, r)
    /\ Row(p, r).canView /\ ~Row(p, r).canUpdate /\ hasAccessPermission(p, r)
    /\ <<vaccineRecords[r].encryptedPersonId, s>> \in acl
    /\ <<vaccineRecords[r].encryptedPersonId, p>> \in acl

-----------------------------------------------------------------------------
(* C10: in every reachable state where record r is active, an               *)
(* updateVaccineRecord on r by r's creator succeeds, whatever the creator's *)
(* own row on r is (absent, expired, revoked) and whether or not the        *)
(* creator is still on the doctor allow-list.                               *)
C10_CreatorCanAlwaysUpdate ==
  \A s \in Addresses, r \in Created :
    (vaccineRecords[r].isActive /\ IsCreator(s, r)) =>
      updateVaccineRecordStatus(s, r) = "ok"

\* reached: the creator has been removed from the allow-list, its own grant
\* was revoked by the owner, and its update of the active record succeeds
C10_Witness ==
  \E s \in Addresses, r \in Created :
    /\ vaccineRecords[r].isActive /\ IsCreator(s, r) /\ ~IsOwner(s, r)
    /\ ~authorizedDoctors[s]
    /\ ~Row(s, r).isActive /\ Row(s, r).canView
    /\ ~hasAccessPermission(s, r)
    /\ vaccineRecords[r].encryptedVaccineType = asEuint8(2)
    /\ updateVaccineRecordStatus(s, r) = "ok"

-----------------------------------------------------------------------------
(* C11: for every created record, once isActive is FALSE it is FALSE after  *)
(* every later step (recordVaccination of further records, grantAccess,     *)
(* revokeAccess, updateVaccineRecord, deactivateRecord, authorizeDoctor,    *)
(* revokeDoctor, the clock), and the record's timestamp and                 *)
(* authorizedDoctor never change after its creation.                        *)
C11_Step ==
  \A r \in Created :
    /\ ~vaccineRecords[r].isActive => ~vaccineRecords'[r].isActive
    /\ vaccineRecords'[r].timestamp = vaccineRecords[r].timestamp
    /\ vaccineRecords'[r].authorizedDoctor = vaccineRecords[r].authorizedDoctor

C11_DeactivationIsFinal == [][vars' /= vars => C11_Step]_vars

\* reached: a record that was updated and then deactivated is still inactive
\* with its creator and creation time, after its creator left the allow-list,
\* the clock moved on and a second record was created
C11_Witness ==
  \E r \in Created, q \in Created :
    /\ ~vaccineRecords[r].isActive
    /\ vaccineRecords[r].encryptedVaccineType = asEuint8(2)
    /\ vaccineRecords[r].timestamp = StartTime /\ now > StartTime
    /\ vaccineRecords[r].authorizedDoctor /= ZeroAddress
    /\ ~authorizedDoctors[vaccineRecords[r].authorizedDoctor]
    /\ q > r /\ vaccineRecords[q].isActive /\ vaccineRecords[q].timestamp = now

-----------------------------------------------------------------------------
\* the payload handles of record r
Payload(r) ==
  <<vaccineRecords[r].encryptedPersonId, vaccineRecords[r].encryptedVaccineType,
    vaccineRecords[r].encryptedVaccineDate, vaccineRecords[r].encryptedDoseNumber,
    vaccineRecords[r].encryptedBatchNumber>>

\* u holds a row on r that is not revoked, not expired and has canUpdate
IsUpdateGrantee(u, r) ==
  Row(u, r).isActive /\ now <= Row(u, r).expiryTime /\ Row(u, r).canUpdate

(* C12 as stated: on a created record that is not active, every             *)
(* updateVaccineRecord by its creator or by an update-grantee fails with    *)
(* "Record not active", every grantAccess fails, and no step changes its    *)
(* payload handles or any of its grant rows.                                *)
C12_InactiveRefuses ==
  \A r \in Created :
    ~vaccineRecords[r].isActive =>
      /\ \A s \in Addresses :
           (IsCreator(s, r) \/ IsUpdateGrantee(s, r)) =>
             updateVaccineRecordStatus(s, r) = "Record not active"
      /\ \A s \in Addresses, a \in AnyAddress : grantAccessStatus(s, a, r) /= "ok"

C12_FrozenStep ==
  \A r \in Created :
    ~vaccineRecords[r].isActive =>
      /\ Payload(r)' = Payload(r)
      /\ \A u \in AnyAddress : accessPermissions'[u][r] = accessPermissions[u][r]

C12_NoMutationAfterDeactivation ==
  /\ []C12_InactiveRefuses
  /\ [][vars' /= vars => C12_FrozenStep]_vars

(* C12 amended: on a created record that is not active every                *)
(* updateVaccineRecord fails: with "Record not active" for the creator and  *)
(* for a caller that is an effective viewer, with "No access permission"    *)
(* for every other caller (an update-grantee without canView included);     *)
(* every grantAccess fails with "Record not active"; its payload handles    *)
(* never change; a grant row of it changes only by a revokeAccess of its    *)
(* owner, which still succeeds and clears the row's isActive flag.          *)
C12_InactiveRefusesAmended ==
  \A r \in Created :
    ~vaccineRecords[r].isActive =>
      /\ \A s \in Addresses :
           updateVaccineRecordStatus(s, r) =
             IF IsCreator(s, r) \/ hasAccessPermission(s, r)
             THEN "Record not active" ELSE "No access permission"
      /\ \A s \in Addresses, a \in AnyAddress :
           grantAccessStatus(s, a, r) = "Record not active"
      /\ \A s \in Addresses, a \in AnyAddress :
           IsOwner(s, r) => revokeAccessStatus(s, a, r) = "ok"

C12_OnlyRevokeStep ==
  \A r \in Created :
    ~vaccineRecords[r].isActive =>
      /\ Payload(r)' = Payload(r)
      /\ \A u \in AnyAddress :
           accessPermissions'[u][r] /= accessPermissions[u][r] =>
             /\ accessPermissions'[u][r] =
                  [accessPermissions[u][r] EXCEPT !.isActive = FALSE]
             /\ \E s \in Addresses : IsOwner(s, r) /\ revokeAccess(s, u, r)

C12_InactiveOnlyRevocable ==
  /\ []C12_InactiveRefusesAmended
  /\ [][vars' /= vars => C12_OnlyRevokeStep]_vars

\* reached: on a deactivated record whose payload was updated before, the
\* creator and a third party holding an effective view and update grant are
\* refused with "Record not active", the owner's grant is refused, and the
\* owner's revoke of that grant would succeed
C12_Witness ==
  \E c, g, o \in Addresses, r \in Created :
    /\ ~vaccineRecords[r].isActive
    /\ vaccineRecords[r].encryptedVaccineType = asEuint8(2)
    /\ IsCreator(c, r) /\ IsOwner(o, r) /\ g /= c /\ g /= o
    /\ hasAccessPermission(g, r) /\ Row(g, r).canUpdate
    /\ updateVaccineRecordStatus(g, r) = "Record not active"
    /\ updateVaccineRecordStatus(c, r) = "Record not active"
    /\ grantAccessStatus(o, g, r) = "Record not active"
    /\ revokeAccessStatus(o, g, r) = "ok"

-----------------------------------------------------------------------------
\* the number of places at which id r stands in the record lists of all users
Occurrences(r) ==
  Cardinality({ <<u, i>> \in AnyAddress \X (1..(MaxRecords + 1)) :
                  i <= Len(getUserRecords(u)) /\ getUserRecords(u)[i] = r })

(* C13: in every reachable state every created id stands exactly once in    *)
(* the record lists of all users together, so it has exactly one owner, and *)
(* no list holds an id that was not created; every list is in ascending     *)
(* order; a successful recordVaccination makes the patient passed to it the *)
(* owner of the new id, and no step changes the owner of an existing id.    *)
C13_OneOwner ==
  /\ \A r \in Created :
       /\ Occurrences(r) = 1
       /\ Cardinality({u \in AnyAddress : hasOwnershipOfRecord(u, r)}) = 1
  /\ \A r \in RecordIds \ Created : Occurrences(r) = 0
  /\ getUserRecords(ZeroAddress) = <<>>
  /\ \A u \in AnyAddress :
       \A i, j \in 1..Len(getUserRecords(u)) :
         i < j => getUserRecords(u)[i] < getUserRecords(u)[j]

C13_OwnerStep ==
  /\ \A u \in AnyAddress, r \in Created :
       hasOwnershipOfRecord(u, r)' <=> hasOwnershipOfRecord(u, r)
  /\ \A s \in Addresses, p \in AnyAddress, id \in PersonIds, vt \in VaccineTypes,
        vd \in VaccineDates, dn \in DoseNumbers, bn \in BatchNumbers :
       (/\ recordVaccinationStatus(s, p, vt, dn) = "ok"
        /\ recordVaccination(s, p, id, vt, vd, dn, bn)) =>
         \E n \in RecordIds :
           /\ n = totalRecords + 1
           /\ \A u \in AnyAddress : hasOwnershipOfRecord(u, n)' <=> u = p
           /\ getUserRecords(p)' = Append(getUserRecords(p), n)

C13_OwnershipFixed ==
  /\ []C13_OneOwner
  /\ [][vars' /= vars => C13_OwnerStep]_vars

\* reached: one user owns two records, listed in creation order, after the
\* first was deactivated, a grant on the second was given to another
\* identity and revoked, and nobody else owns either
C13_Witness ==
  \E p, g \in Addresses :
    /\ getUserRecords(p) = <<1, 2>>
    /\ ~vaccineRecords[1].isActive
    /\ g /= p /\ ~Row(g, 2).isActive /\ Row(g, 2).canView
    /\ \A u \in AnyAddress \ {p} : getUserRecords(u) = <<>>

-----------------------------------------------------------------------------
\* uint8 arguments at and around the limits of the valid ranges
C14_TypeProbes == {0, 1, 10, 11, 255}
C14_DoseProbes == {0, 1, 5, 6, 255}

(* C14: in every reachable state recordVaccination is accepted exactly when *)
(* the caller is on the doctor allow-list, the patient is not the zero      *)
(* address, vaccineType is in 1..10 and doseNumber is in 1..5; and a step   *)
(* that changes totalRecords or any record's creator is a call with such    *)
(* arguments by a caller then on the allow-list: it raises totalRecords by  *)
(* one and creates that one record.                                         *)
C14_AcceptedIff ==
  \A s \in Addresses, p \in AnyAddress, vt \in C14_TypeProbes, dn \in C14_DoseProbes :
    (recordVaccinationStatus(s, p, vt, dn) = "ok") <=>
      /\ authorizedDoctors[s]
      /\ p /= "0x0"
      /\ vt \in 1..10
      /\ dn \in 1..5

C14_CreationStep ==
  (\/ totalRecords' /= totalRecords
   \/ \E r \in RecordIds :
        vaccineRecords'[r].authorizedDoctor /= vaccineRecords[r].authorizedDoctor) =>
    \E s \in Addresses, p \in Addresses, vt \in 1..10, dn \in 1..5, n \in RecordIds :
      /\ authorizedDoctors[s]
      /\ n = totalRecords + 1
      /\ totalRecords' = n
      /\ vaccineRecords'[n].authorizedDoctor = s
      /\ vaccineRecords'[n].encryptedVaccineType = asEuint8(vt)
      /\ vaccineRecords'[n].encryptedDoseNumber = asEuint8(dn)
      /\ userRecords' = [userRecords EXCEPT ![p] = Append(@, n)]
      /\ \A r \in RecordIds \ {n} : vaccineRecords'[r] = vaccineRecords[r]

C14_CreateValidated ==
  /\ []C14_AcceptedIff
  /\ [][vars' /= vars => C14_CreationStep]_vars

\* reached: with one doctor on the allow-list and the creator of the
\* existing record taken off it again, each of the four rejections and the
\* acceptance occur
C14_Witness ==
  \E s, t \in Addresses :
    /\ authorizedDoctors[s] /\ ~authorizedDoctors[t]
    /\ totalRecords = 1 /\ IsCreator(t, 1)
    /\ recordVaccinationStatus(t, "a3", 1, 1) = "Not an authorized doctor"
    /\ recordVaccinationStatus(s, ZeroAddress, 1, 1) = "Invalid patient address"
    /\ recordVaccinationStatus(s, "a3", 0, 1) = "Invalid vaccine type"
    /\ recordVaccinationStatus(s, "a3", 11, 1) = "Invalid vaccine type"
    /\ recordVaccinationStatus(s, "a3", 1, 0) = "Invalid dose number"
    /\ recordVaccinationStatus(s, "a3", 1, 6) = "Invalid dose number"
    /\ recordVaccinationStatus(s, "a3", 10, 5) = "ok"

-----------------------------------------------------------------------------
\* record r has been created: it has a creator and a creation timestamp
HasBeenCreated(r) ==
  vaccineRecords[r].authorizedDoctor /= ZeroAddress /\ vaccineRecords[r].timestamp /= 0

(* C15: totalRecords is 0 initially; in every reachable state the records   *)
(* that have a creator and a creation timestamp are exactly those with      *)
(* 1 <= id <= totalRecords; every step leaves totalRecords alone or raises  *)
(* it by exactly one, and it raises it exactly when it is a successful      *)
(* recordVaccination, which creates the record whose id is the new value.   *)
C15_CreatedIffInRange ==
  \A r \in RecordIds :
    /\ HasBeenCreated(r) <=> (1 <= r /\ r <= totalRecords)
    /\ ~HasBeenCreated(r) => vaccineRecords[r] = NoRecord

C15_CounterStep ==
  /\ totalRecords' = totalRecords \/ totalRecords' = totalRecords + 1
  /\ \A r \in RecordIds : HasBeenCreated(r) => HasBeenCreated(r)'
  /\ (totalRecords' /= totalRecords) <=>
       \E s \in Addresses, p \in AnyAddress, id \in PersonIds, vt \in VaccineTypes,
          vd \in VaccineDates, dn \in DoseNumbers, bn \in BatchNumbers :
         /\ recordVaccinationStatus(s, p, vt, dn) = "ok"
         /\ recordVaccination(s, p, id, vt, vd, dn, bn)
  /\ (totalRecords' /= totalRecords) =>
       \E n \in RecordIds :
         /\ n = totalRecords + 1
         /\ ~HasBeenCreated(n) /\ HasBeenCreated(n)'
         /\ vaccineRecords'[n].timestamp = now

C15_SequentialIds ==
  /\ totalRecords = 0
  /\ []C15_CreatedIffInRange
  /\ [][vars' /= vars => C15_CounterStep]_vars

\* reached: two records with ids 1 and 2 created at different times, the
\* first deactivated in between, and no record under id 0
C15_Witness ==
  /\ totalRecords = 2
  /\ HasBeenCreated(1) /\ HasBeenCreated(2) /\ ~HasBeenCreated(0)
  /\ vaccineRecords[1].timestamp < vaccineRecords[2].timestamp
  /\ ~vaccineRecords[1].isActive /\ vaccineRecords[2].isActive

-----------------------------------------------------------------------------
(* C16: a rejected call changes nothing.  Every step that changes the       *)
(* doctor allow-list, totalRecords, a record, a grant row, an owner list or *)
(* a ciphertext authorization is a call of the operation that writes it     *)
(* whose requires all pass; a call whose status is a revert reason, of      *)
(* recordVaccination, grantAccess, revokeAccess, updateVaccineRecord,       *)
(* deactivateRecord, authorizeDoctor, revokeDoctor or verifyVaccineRecord,  *)
(* therefore accounts for no change of any of them.                         *)
C16_OkDoctorCall ==
  \E s \in Addresses, d \in AnyAddress :
    \/ authorizeDoctorStatus(s, d) = "ok" /\ authorizeDoctor(s, d)
    \/ revokeDoctorStatus(s, d) = "ok" /\ revokeDoctor(s, d)

C16_OkRecordCall ==
  \E s \in Addresses, p \in AnyAddress, id \in PersonIds, vt \in VaccineTypes,
     vd \in VaccineDates, dn \in DoseNumbers, bn \in BatchNumbers :
    recordVaccinationStatus(s, p, vt, dn) = "ok" /\ recordVaccination(s, p, id, vt, vd, dn, bn)

C16_OkGrantCall ==
  \E s \in Addresses, a \in AnyAddress, r \in RecordIds, cv \in BoolSet,
     cu \in BoolSet, d \in Durations :
    grantAccessStatus(s, a, r) = "ok" /\ grantAccess(s, a, r, cv, cu, d)

C16_OkRevokeCall ==
  \E s \in Addresses, a \in AnyAddress, r \in RecordIds :
    revokeAccessStatus(s, a, r) = "ok" /\ revokeAccess(s, a, r)

C16_OkUpdateCall ==
  \E s \in Addresses, r \in RecordIds, vt \in NewVaccineTypes, vd \in NewVaccineDates,
     dn \in NewDoseNumbers, bn \in NewBatchNumbers :
    updateVaccineRecordStatus(s, r) = "ok" /\ updateVaccineRecord(s, r, vt, vd, dn, bn)

C16_OkDeactivateCall ==
  \E s \in Addresses, r \in RecordIds :
    deactivateRecordStatus(s, r) = "ok" /\ deactivateRecord(s, r)

C16_Step ==
  /\ healthAuthority' = healthAuthority
  /\ now' /= now => UNCHANGED contractState
  /\ authorizedDoctors' /= authorizedDoctors => C16_OkDoctorCall
  /\ (totalRecords' /= totalRecords \/ userRecords' /= userRecords) => C16_OkRecordCall
  /\ (totalRecords' = totalRecords /\ accessPermissions' /= accessPermissions) =>
       (C16_OkGrantCall \/ C16_OkRevokeCall)
  /\ (totalRecords' = totalRecords /\ vaccineRecords' /= vaccineRecords) =>
       (C16_OkUpdateCall \/ C16_OkDeactivateCall)
  /\ (totalRecords' = totalRecords /\ acl' /= acl) =>
       (C16_OkGrantCall \/ C16_OkUpdateCall)

C16_RejectedChangesNothing == [][vars' /= vars => C16_Step]_vars

\* reached: a state with a record whose creator holds an update grant and is
\* off the allow-list, in which every operation has a rejected call: by a
\* non-administrator, an unlisted doctor, a non-owner, a caller without
\* grant, the owner (update, deactivation) and a non-viewer
C16_Witness ==
  \E c, o \in Addresses, r \in Created :
    /\ vaccineRecords[r].isActive /\ IsCreator(c, r) /\ IsOwner(o, r)
    /\ o /= c /\ o /= healthAuthority /\ c /= healthAuthority
    /\ Row(c, r).isActive /\ Row(c, r).canUpdate /\ ~Row(c, r).canView
    /\ ~authorizedDoctors[c]
    /\ authorizeDoctorStatus(o, c) = "Not authorized health authority"
    /\ revokeDoctorStatus(o, c) = "Not authorized health authority"
    /\ recordVaccinationStatus(c, o, 1, 1) = "Not an authorized doctor"
    /\ grantAccessStatus(c, c, r) = "Not record owner"
    /\ grantAccessStatus(o, ZeroAddress, r) = "Invalid accessor address"
    /\ revokeAccessStatus(c, c, r) = "Not record owner"
    /\ updateVaccineRecordStatus(healthAuthority, r) = "No access permission"
    /\ updateVaccineRecordStatus(o, r) = "No update permission"
    /\ deactivateRecordStatus(o, r) = "Not authorized"
    /\ verifyVaccineRecordStatus(c, r) = "No access permission"

-----------------------------------------------------------------------------
(* C17 as stated: a grantAccess with durationInDays = 0 and canView = TRUE  *)
(* by the owner on an active record is accepted, and the grantee is not an  *)
(* effective viewer in the state the call produces.                         *)
C17_ZeroGrantStepAsStated ==
  \A s \in Addresses, a \in AnyAddress, r \in RecordIds, cu \in BoolSet :
    (grantAccessStatus(s, a, r) = "ok" /\ grantAccess(s, a, r, TRUE, cu, 0)) =>
      ~hasAccessPermission(a, r)'

C17_OwnerGrantAccepted ==
  \A s \in Addresses, a \in Addresses, r \in Created :
    (IsOwner(s, r) /\ vaccineRecords[r].isActive) => grantAccessStatus(s, a, r) = "ok"

C17_LapsedIsIneffective ==
  \A u \in AnyAddress, r \in RecordIds :
    Row(u, r).expiryTime < now => ~hasAccessPermission(u, r)

C17_ZeroGrantStep ==
  \A s \in Addresses, a \in AnyAddress, r \in RecordIds, cv \in BoolSet, cu \in BoolSet :
    (grantAccessStatus(s, a, r) = "ok" /\ grantAccess(s, a, r, cv, cu, 0)) =>
      /\ accessPermissions'[a][r].expiryTime = now
      /\ accessPermissions'[a][r].isActive
      /\ hasAccessPermission(a, r)' <=> cv

-----------------------------------------------------------------------------
(* C18: healthAuthority is the deployer initially and in every reachable    *)
(* state; authorizeDoctor and revokeDoctor are accepted exactly when the    *)
(* caller is healthAuthority and are otherwise rejected with "Not           *)
(* authorized health authority"; the doctor allow-list is empty initially   *)
(* and every step that changes it is an authorizeDoctor or revokeDoctor     *)
(* call by healthAuthority, which sets one entry.                           *)
C18_AdminFixed ==
  /\ healthAuthority = Deployer
  /\ \A s \in Addresses, d \in AnyAddress :
       /\ authorizeDoctorStatus(s, d) =
            IF s = Deployer THEN "ok" ELSE "Not authorized health authority"
       /\ revokeDoctorStatus(s, d) =
            IF s = Deployer THEN "ok" ELSE "Not authorized health authority"

C18_AllowListStep ==
  /\ healthAuthority' = healthAuthority
  /\ authorizedDoctors' /= authorizedDoctors =>
       \E d \in AnyAddress :
         \/ /\ authorizeDoctor(Deployer, d)
            /\ authorizedDoctors' = [authorizedDoctors EXCEPT ![d] = TRUE]
         \/ /\ revokeDoctor(Deployer, d)
            /\ authorizedDoctors' = [authorizedDoctors EXCEPT ![d] = FALSE]

C18_AdminOnlyAllowList ==
  /\ healthAuthority = Deployer
  /\ \A u \in AnyAddress : ~authorizedDoctors[u]
  /\ []C18_AdminFixed
  /\ [][vars' /= vars => C18_AllowListStep]_vars

\* reached: one doctor is on the allow-list, another was on it (it created
\* the record) and has been removed, and the listed doctor's own calls of
\* authorizeDoctor and revokeDoctor are rejected
C18_Witness ==
  \E d, e \in Addresses, r \in Created :
    /\ d /= healthAuthority /\ e /= healthAuthority /\ d /= e
    /\ authorizedDoctors[d] /\ ~authorizedDoctors[e] /\ IsCreator(e, r)
    /\ authorizeDoctorStatus(d, e) = "Not authorized health authority"
    /\ revokeDoctorStatus(d, d) = "Not authorized health authority"
    /\ authorizeDoctorStatus(healthAuthority, e) = "ok"

-----------------------------------------------------------------------------
(* C19: in every reachable state deactivateRecord on a record is accepted   *)
(* exactly when the caller is the record's creator or healthAuthority, and  *)
(* is otherwise rejected with "Not authorized", the record's owner and a    *)
(* holder of an effective update grant included; a step that takes an       *)
(* active record to inactive is a deactivateRecord call by its creator or   *)
(* by healthAuthority.                                                      *)
C19_AcceptedIff ==
  \A s \in Addresses, r \in RecordIds :
    deactivateRecordStatus(s, r) =
      IF IsCreator(s, r) \/ s = healthAuthority THEN "ok" ELSE "Not authorized"

C19_DeactivationStep ==
  \A r \in RecordIds :
    (vaccineRecords[r].isActive /\ ~vaccineRecords'[r].isActive) =>
      \E s \in Addresses :
        /\ IsCreator(s, r) \/ s = healthAuthority
        /\ deactivateRecord(s, r)

C19_OnlyCreatorOrAdminDeactivates ==
  /\ []C19_AcceptedIff
  /\ [][vars' /= vars => C19_DeactivationStep]_vars

\* reached: on an active record its owner, who is neither its creator nor
\* healthAuthority and holds an effective view and update grant on it, is
\* refused, while creator and healthAuthority are accepted
C19_Witness ==
  \E o, c \in Addresses, r \in Created :
    /\ vaccineRecords[r].isActive
    /\ IsOwner(o, r) /\ IsCreator(c, r) /\ o /= c /\ o /= healthAuthority
    /\ hasAccessPermission(o, r) /\ Row(o, r).canUpdate
    /\ updateVaccineRecordStatus(o, r) = "ok"
    /\ deactivateRecordStatus(o, r) = "Not authorized"
    /\ deactivateRecordStatus(c, r) = "ok"
    /\ deactivateRecordStatus(healthAuthority, r) = "ok"

-----------------------------------------------------------------------------
(* C20: a successful deactivateRecord changes only the isActive flag of the *)
(* one record: every grant row, owner list and ciphertext authorization is  *)
(* unchanged, and every identity that was an effective viewer before the    *)
(* call is one after it (hasAccessPermission true, verifyVaccineRecord      *)
(* accepted); on an inactive record an effective viewer stops being one     *)
(* only by the clock passing its expiryTime or by a revokeAccess.           *)
C20_DeactivateStep ==
  \A s \in Addresses, r \in RecordIds :
    (deactivateRecordStatus(s, r) = "ok" /\ deactivateRecord(s, r)) =>
      /\ vaccineRecords' = [vaccineRecords EXCEPT ![r].isActive = FALSE]
      /\ UNCHANGED <<healthAuthority, totalRecords, accessPermissions,
                     authorizedDoctors, userRecords, acl, now>>
      /\ \A u \in AnyAddress :
           hasAccessPermission(u, r) =>
             /\ hasAccessPermission(u, r)'
             /\ (verifyVaccineRecordStatus(u, r) = "ok")'

C20_ViewerLossStep ==
  \A u \in AnyAddress, r \in Created :
    (/\ ~vaccineRecords[r].isActive
     /\ hasAccessPermission(u, r) /\ ~hasAccessPermission(u, r)') =>
      \/ now' > accessPermissions[u][r].expiryTime
      \/ \E s \in Addresses : revokeAccessStatus(s, u, r) = "ok" /\ revokeAccess(s, u, r)

C20_InactiveStillViewable ==
  \A u \in AnyAddress, r \in Created :
    (/\ ~vaccineRecords[r].isActive
     /\ Row(u, r).isActive /\ Row(u, r).canView /\ now <= Row(u, r).expiryTime) =>
      /\ hasAccessPermission(u, r)
      /\ verifyVaccineRecordStatus(u, r) = "ok"

-----------------------------------------------------------------------------
(* C21: in every reachable state, on a record whose owner is not also its   *)
(* creator, an updateVaccineRecord called by the owner does not succeed.    *)
C21_OwnerCannotUpdate ==
  \A o \in Addresses, r \in Created :
    (IsOwner(o, r) /\ ~IsCreator(o, r)) => updateVaccineRecordStatus(o, r) /= "ok"

-----------------------------------------------------------------------------
\* the number of active records among ids 1..n, counted one id at a time
ActiveUpTo(n) ==
  LET count[i \in 0..n] ==
        IF i = 0 THEN 0
        ELSE count[i - 1] + (IF vaccineRecords[i].isActive THEN 1 ELSE 0)
  IN  count[n]

(* C22: in every reachable state getStatistics returns the number of ids in *)
(* 1..totalRecords whose record is active, which never exceeds              *)
(* totalRecords, and totalRecords itself; the first value drops by exactly  *)
(* one on a step that deactivates an active record, rises by one on a       *)
(* creation and is unchanged by every other step.                           *)
C22_StatisticsValue ==
  /\ getStatistics[1] = ActiveUpTo(totalRecords)
  /\ getStatistics[2] = totalRecords
  /\ getStatistics[1] <= getStatistics[2]

C22_StatisticsStep ==
  /\ (\E r \in Created : vaccineRecords[r].isActive /\ ~vaccineRecords'[r].isActive) =>
       /\ getStatistics'[1] = getStatistics[1] - 1
       /\ getStatistics'[2] = getStatistics[2]
  /\ totalRecords' /= totalRecords =>
       /\ getStatistics'[1] = getStatistics[1] + 1
       /\ getStatistics'[2] = getStatistics[2] + 1
  /\ (/\ totalRecords' = totalRecords
      /\ \A r \in Created : vaccineRecords'[r].isActive = vaccineRecords[r].isActive) =>
       getStatistics' = getStatistics

C22_StatisticsAccurate ==
  /\ []C22_StatisticsValue
  /\ [][vars' /= vars => C22_StatisticsStep]_vars

\* reached: of two created records the first has been deactivated, the only
\* doctor has left the allow-list, and the statistics are one active record
\* of two
C22_Witness ==
  /\ totalRecords = 2
  /\ ~vaccineRecords[1].isActive /\ vaccineRecords[2].isActive
  /\ \A u \in AnyAddress : ~authorizedDoctors[u]
  /\ getStatistics = <<1, 2>>

-----------------------------------------------------------------------------
(* C23: a grantAccess with canUpdate = TRUE and canView = FALSE is accepted *)
(* like any other and stores the row as given; in every reachable state an  *)
(* identity that is not the record's creator and whose row has canUpdate    *)
(* without canView is rejected by updateVaccineRecord and is no effective   *)
(* viewer, however fresh and unrevoked the row is.                          *)
C23_UpdateOnlyRowIsUseless ==
  \A g \in Addresses, r \in RecordIds :
    (Row(g, r).canUpdate /\ ~Row(g, r).canView) =>
      /\ ~hasAccessPermission(g, r)
      /\ verifyVaccineRecordStatus(g, r) = "No access permission"
      /\ ~IsCreator(g, r) => updateVaccineRecordStatus(g, r) = "No access permission"

C23_GrantStep ==
  \A s \in Addresses, a \in AnyAddress, r \in RecordIds, d \in Durations :
    (grantAccessStatus(s, a, r) = "ok" /\ grantAccess(s, a, r, FALSE, TRUE, d)) =>
      /\ accessPermissions'[a][r] =
           [canView |-> FALSE, canUpdate |-> TRUE,
            expiryTime |-> now + d * 86400, isActive |-> TRUE]
      /\ ~hasAccessPermission(a, r)'
      /\ ~IsCreator(a, r) => (updateVaccineRecordStatus(a, r) /= "ok")'

C23_UpdateNeedsView ==
  /\ []C23_UpdateOnlyRowIsUseless
  /\ [][vars' /= vars => C23_GrantStep]_vars

\* reached: on an active record an identity that is neither creator nor
\* owner holds an unrevoked, unexpired row with canUpdate and without
\* canView, and its update is refused with "No access permission"
C23_Witness ==
  \E g \in Addresses, r \in Created :
    /\ vaccineRecords[r].isActive
    /\ ~IsCreator(g, r) /\ ~IsOwner(g, r)
    /\ Row(g, r).isActive /\ now < Row(g, r).expiryTime
    /\ Row(g, r).canUpdate /\ ~Row(g, r).canView
    /\ updateVaccineRecordStatus(g, r) = "No access permission"
    /\ ~hasAccessPermission(g, r)

-----------------------------------------------------------------------------
\* the set of the five handles record r holds
Handles(r) == { Payload(r)[i] : i \in 1..5 }

(* C24: a successful grantAccess with canView = TRUE adds the accessor to   *)
(* the access list of each of the five handles the record holds at the time *)
(* of the call (handles installed by earlier updates included) and adds     *)
(* nothing else; a successful grantAccess with canView = FALSE leaves the   *)
(* access list of every handle unchanged.                                   *)
C24_GrantAclStep ==
  \A s \in Addresses, a \in AnyAddress, r \in RecordIds,
     cv \in BoolSet, cu \in BoolSet, d \in Durations :
    (grantAccessStatus(s, a, r) = "ok" /\ grantAccess(s, a, r, cv, cu, d)) =>
      IF cv
      THEN /\ \A h \in Handles(r) : <<h, a>> \in acl'
           /\ acl' = acl \cup (Handles(r) \X {a})
      ELSE acl' = acl

C24_GrantAuthorizesOnView == [][vars' /= vars => C24_GrantAclStep]_vars

\* reached: an identity that is neither owner nor creator was granted view
\* after the vaccine type had been updated: it is on the access list of the
\* record's five current handles, the new type handle included (an update
\* authorizes nobody but the contract, so the grant came after the update)
C24_Witness ==
  \E g \in Addresses, r \in Created :
    /\ ~IsOwner(g, r) /\ ~IsCreator(g, r)
    /\ vaccineRecords[r].encryptedVaccineType = asEuint8(2)
    /\ \A h \in Handles(r) : <<h, g>> \in acl
    /\ Row(g, r).canView

-----------------------------------------------------------------------------
\* the handles an update with these new values installs
NewHandles(vt, vd, dn, bn) ==
  (IF vt > 0 THEN {asEuint8(vt)} ELSE {}) \cup (IF vd > 0 THEN {asEuint32(vd)} ELSE {})
    \cup (IF dn > 0 THEN {asEuint8(dn)} ELSE {}) \cup (IF bn > 0 THEN {asEuint32(bn)} ELSE {})

\* a successful update of record r sets exactly the fields with a non-zero
\* new value and leaves the other fields of r and every other record alone
SelectiveReplacement(r, vt, vd, dn, bn) ==
  /\ vaccineRecords'[r].encryptedVaccineType =
       IF vt > 0 THEN asEuint8(vt) ELSE vaccineRecords[r].encryptedVaccineType
  /\ vaccineRecords'[r].encryptedVaccineDate =
       IF vd > 0 THEN asEuint32(vd) ELSE vaccineRecords[r].encryptedVaccineDate
  /\ vaccineRecords'[r].encryptedDoseNumber =
       IF dn > 0 THEN asEuint8(dn) ELSE vaccineRecords[r].encryptedDoseNumber
  /\ vaccineRecords'[r].encryptedBatchNumber =
       IF bn > 0 THEN asEuint32(bn) ELSE vaccineRecords[r].encryptedBatchNumber
  /\ vaccineRecords'[r].encryptedPersonId = vaccineRecords[r].encryptedPersonId
  /\ \A q \in RecordIds \ {r} : vaccineRecords'[q] = vaccineRecords[q]

(* C25 as stated: a successful updateVaccineRecord replaces the handle of   *)
(* exactly the fields whose new value is non-zero, leaves the other fields  *)
(* and the person id handle untouched, and afterwards no account (owner,    *)
(* creator, grantee) is on the access list of a new handle: the contract    *)
(* alone is.                                                                *)
C25_NewHandleStep ==
  \A s \in Addresses, r \in 1..MaxRecords, vt \in UpdateTypes, vd \in UpdateDates,
     dn \in UpdateDoses, bn \in UpdateBatches :
    (updateVaccineRecordStatus(s, r) = "ok"
       /\ updateVaccineRecord(s, r, vt, vd, dn, bn)) =>
      /\ SelectiveReplacement(r, vt, vd, dn, bn)
      /\ \A h \in NewHandles(vt, vd, dn, bn) :
           /\ <<h, This>> \in acl'
           /\ \A u \in Addresses : <<h, u>> \notin acl'

C25_UpdateAclStep ==
  \A s \in Addresses, r \in 1..MaxRecords, vt \in UpdateTypes, vd \in UpdateDates,
     dn \in UpdateDoses, bn \in UpdateBatches :
    (updateVaccineRecordStatus(s, r) = "ok"
       /\ updateVaccineRecord(s, r, vt, vd, dn, bn)) =>
      /\ SelectiveReplacement(r, vt, vd, dn, bn)
      /\ acl' = acl \cup (NewHandles(vt, vd, dn, bn) \X {This})
      /\ \A h \in NewHandles(vt, vd, dn, bn) :
           /\ <<h, This>> \in acl'
           /\ \A u \in Addresses : <<h, u>> \in acl' <=> <<h, u>> \in acl

-----------------------------------------------------------------------------
(* C26: grantAccess on a record id that was never created or whose record   *)
(* has been deactivated fails with "Record not active" for every caller and *)
(* every accessor, the owner and the zero accessor included; grantAccess by *)
(* the owner of an active record with the zero address as accessor fails    *)
(* with "Invalid accessor address".                                         *)
C26_GrantFailureOrder ==
  /\ \A s \in Addresses, a \in AnyAddress, r \in RecordIds :
       (r \notin Created \/ ~vaccineRecords[r].isActive) =>
         grantAccessStatus(s, a, r) = "Record not active"
  /\ \A s \in Addresses, r \in Created :
       (vaccineRecords[r].isActive /\ IsOwner(s, r)) =>
         grantAccessStatus(s, ZeroAddress, r) = "Invalid accessor address"

\* reached: a deactivated record whose owner and a non-owner are both told
\* "Record not active", with the zero accessor as with a real one
C26_Witness ==
  \E r \in Created, o \in Addresses, n \in Addresses :
    /\ ~vaccineRecords[r].isActive
    /\ IsOwner(o, r) /\ ~IsOwner(n, r)
    /\ \A s \in {o, n}, a \in {ZeroAddress, n} :
         grantAccessStatus(s, a, r) = "Record not active"

-----------------------------------------------------------------------------
(* C27 as stated: updateVaccineRecord on a record id that was never created *)
(* or whose record has been deactivated fails with "Record not active"      *)
(* whoever the caller is.                                                   *)
C27_InactiveUpdateAlwaysNotActive ==
  \A s \in Addresses, r \in RecordIds :
    (r \notin Created \/ ~vaccineRecords[r].isActive) =>
      updateVaccineRecordStatus(s, r) = "Record not active"

(* C27 amended: updateVaccineRecord on a deactivated record fails for every *)
(* caller, with "Record not active" when the caller is the record's creator *)
(* or an effective viewer of it and with "No access permission" otherwise;  *)
(* on a record id that was never created it fails with "No access           *)
(* permission" whoever the caller is.                                       *)
C27_InactiveUpdateFailure ==
  /\ \A s \in Addresses, r \in Created :
       ~vaccineRecords[r].isActive =>
         updateVaccineRecordStatus(s, r) =
           IF IsCreator(s, r) \/ hasAccessPermission(s, r)
           THEN "Record not active" ELSE "No access permission"
  /\ \A s \in Addresses, r \in RecordIds \ Created :
       updateVaccineRecordStatus(s, r) = "No access permission"

\* reached: a deactivated record whose creator and whose owner, an
\* effective viewer, are told "Record not active" while a third identity
\* is told "No access permission"
C27_Witness ==
  \E r \in Created, c \in Addresses, o \in Addresses, n \in Addresses :
    /\ ~vaccineRecords[r].isActive
    /\ IsCreator(c, r) /\ IsOwner(o, r) /\ o /= c /\ hasAccessPermission(o, r)
    /\ ~IsCreator(n, r) /\ ~hasAccessPermission(n, r)
    /\ updateVaccineRecordStatus(c, r) = "Record not active"
    /\ updateVaccineRecordStatus(o, r) = "Record not active"
    /\ updateVaccineRecordStatus(n, r) = "No access permission"

-----------------------------------------------------------------------------
(* C28: no step (revokeAccess, the clock passing an expiry time,            *)
(* deactivateRecord, revokeDoctor, a replacing grantAccess without view     *)
(* permission, or any other call) takes an account off the access list of a *)
(* handle; so a grantee that was put on the list of a record's handles by a *)
(* view grant is still on it in every later state, also when its row is     *)
(* revoked or expired and hasAccessPermission is false.                     *)
C28_AclStep ==
  /\ acl \subseteq acl'
  /\ \A g \in Addresses, r \in Created :
       (\A h \in Handles(r) : <<h, g>> \in acl) =>
         \A h \in Handles(r) : <<h, g>> \in acl'

-----------------------------------------------------------------------------
\* every non-zero value of the uint8 parameters
Uint8NonZero == 1..255

\* wherever updateVaccineRecord would succeed for caller s on record r, the
\* record it would store holds the handle of any non-zero type or dose
C29_AnyValueStored ==
  \A s \in Addresses, r \in Created :
    updateVaccineRecordStatus(s, r) = "ok" =>
      /\ \A vt \in Uint8NonZero :
           updatedRecord(vaccineRecords[r], vt, 0, 0, 0).encryptedVaccineType = asEuint8(vt)
      /\ \A dn \in Uint8NonZero :
           updatedRecord(vaccineRecords[r], 0, 0, dn, 0).encryptedDoseNumber = asEuint8(dn)

\* a step that creates a record stores a type in 1..MaxVaccineType and a
\* dose in 1..MaxDoseNumber; a successful update stores the non-zero type
\* and dose it was given, whatever they are
C29_StoredValuesStep ==
  /\ totalRecords' /= totalRecords =>
       /\ vaccineRecords'[totalRecords'].encryptedVaccineType \in
            { asEuint8(v) : v \in 1..MaxVaccineType }
       /\ vaccineRecords'[totalRecords'].encryptedDoseNumber \in
            { asEuint8(v) : v \in 1..MaxDoseNumber }
  /\ \A s \in Addresses, r \in 1..MaxRecords, vt \in UpdateTypes, vd \in UpdateDates,
        dn \in UpdateDoses, bn \in UpdateBatches :
       (updateVaccineRecordStatus(s, r) = "ok"
          /\ updateVaccineRecord(s, r, vt, vd, dn, bn)) =>
         /\ vt > 0 => vaccineRecords'[r].encryptedVaccineType = asEuint8(vt)
         /\ dn > 0 => vaccineRecords'[r].encryptedDoseNumber = asEuint8(dn)

-----------------------------------------------------------------------------
\* whatever the owner's own row holds, the owner of a created record passes
\* the ownership check: it may revoke anybody's row, and while the record is
\* active it may grant to any non-zero accessor, itself included
C30_OwnerKeepsOwnership ==
  \A o \in Addresses, r \in Created :
    IsOwner(o, r) =>
      /\ hasOwnershipOfRecord(o, r)
      /\ \A a \in AnyAddress : revokeAccessStatus(o, a, r) = "ok"
      /\ vaccineRecords[r].isActive =>
           \A a \in Addresses : grantAccessStatus(o, a, r) = "ok"

\* the row recordVaccination gives the owner ends OwnerGrantDays days after
\* creation and is no effective view grant once the clock is past that;
\* the owner's grant to itself and its revoke of itself rewrite that row
\* like any other; on a deactivated record an owner that is no effective
\* viewer is none after the step either
C30_OwnerRowStep ==
  /\ \A n \in RecordIds, o \in Addresses :
       (totalRecords' /= totalRecords /\ n = totalRecords' /\ IsOwner(o, n)') =>
         /\ Row(o, n)' = [canView |-> TRUE, canUpdate |-> FALSE,
                          expiryTime |-> now + OwnerGrantDays * DAY,
                          isActive |-> TRUE]
         /\ vaccineRecords'[n].timestamp = now
  /\ \A o \in Addresses, r \in Created :
       IsOwner(o, r) =>
         /\ (Row(o, r)' = Row(o, r) /\ Row(o, r).isActive /\ Row(o, r).canView
               /\ now' > Row(o, r).expiryTime) => ~hasAccessPermission(o, r)'
         /\ \A cv \in BoolSet, cu \in BoolSet, d \in Durations :
              (grantAccessStatus(o, o, r) = "ok" /\ grantAccess(o, o, r, cv, cu, d)) =>
                Row(o, r)' = [canView |-> cv, canUpdate |-> cu,
                              expiryTime |-> now + d * DAY, isActive |-> TRUE]
         /\ revokeAccess(o, o, r) => ~Row(o, r)'.isActive
         /\ (~vaccineRecords[r].isActive /\ ~hasAccessPermission(o, r)) =>
              ~hasAccessPermission(o, r)'

(* C30: ownership does not depend on the owner's own permission row. That   *)
(* row is an ordinary one: it lapses OwnerGrantDays days after creation and *)
(* the owner can revoke or overwrite it. In every such state the owner      *)
(* passes the ownership check, so it can grant on an active record (to      *)
(* itself as well) and revoke on any created record. Once the record is     *)
(* deactivated, an owner that is not an effective viewer never becomes one  *)
(* again.                                                                   *)
C30_OwnershipIndependentOfRow ==
  []C30_OwnerKeepsOwnership /\ [][vars' /= vars => C30_OwnerRowStep]_vars

\* reached: an active record whose owner overwrote its own row and is no
\* effective viewer now (the row lapsed or was revoked), and whose grant to
\* itself and revoke would still be accepted
C30_Witness ==
  \E o \in Addresses, r \in Created :
    /\ IsOwner(o, r) /\ vaccineRecords[r].isActive
    /\ Row(o, r).expiryTime /= vaccineRecords[r].timestamp + OwnerGrantDays * DAY
    /\ ~hasAccessPermission(o, r)
    /\ grantAccessStatus(o, o, r) = "ok"
    /\ revokeAccessStatus(o, o, r) = "ok"

====
